---- MODULE Spec2Model ----
(***************************************************************************)
(* Model of toyorm's PostgreSqlDialect.SearchExec (dialect_postgres.go):   *)
(* the stack evaluator that compiles a postfix SearchList into one SQL     *)
(* fragment (text + positional arguments).                                 *)
(*                                                                         *)
(* A text is a sequence of tokens; the SQL string is the concatenation of  *)
(* the tokens.  Every "?" placeholder and every "," is a token of its own, *)
(* so that placeholders can be counted and trimmed as the code does.       *)
(***************************************************************************)
EXTENDS Integers, Sequences, FiniteSets, TLC

VARIABLES s, i, stack, status, ret

\* the statement builders and the executor of the dialect: the call in progress
\* (operation and inputs), its outcome, and the rows of the table it runs on
VARIABLES call, out, table

\* the backing arrays of the argument slices, when slices are modelled as Go
\* has them: a reference to an array, a length and a capacity
VARIABLES heap

vars == <<s, i, stack, status, ret, call, out, table, heap>>

\* the variables of the statement builders
dvars == <<call, out, table, heap>>
\* the variables of one SearchExec call
svars == <<s, i, stack, status, ret>>

-----------------------------------------------------------------------------
(* Bounds *)

\* longest SearchList over the core alphabet
MaxLen == 5
\* longest In / NotIn operand sequence
MaxIn == 3

-----------------------------------------------------------------------------
(* Inputs *)

Columns == {"a", "b", "c"}
Values == {1, 2, 3}

RECURSIVE SeqsUpTo(_, _)
SeqsUpTo(S, n) ==
    IF n = 0 THEN {<<>>}
    ELSE LET shorter == SeqsUpTo(S, n - 1)
         IN shorter \cup {Append(q, x) : q \in {t \in shorter : Len(t) = n - 1}, x \in S}

CombinatorTypes == {"ExprAnd", "ExprOr", "ExprNot"}
SingleTypes == {"ExprEqual", "ExprNotEqual", "ExprGreater", "ExprGreaterEqual",
                "ExprLess", "ExprLessEqual", "ExprLike", "ExprNotLike"}
BetweenTypes == {"ExprBetween", "ExprNotBetween"}
InTypes == {"ExprIn", "ExprNotIn"}
NullTypes == {"ExprNull", "ExprNotNull"}
LeafTypes == SingleTypes \cup BetweenTypes \cup InTypes \cup NullTypes

\* a node is {Type, Val}; Val carries the column and the operand value.
\* Single-value operands are 1-element sequences <<v>>, Between operands are
\* pairs, In operands are sequences, nodes without operand carry <<>>.
Node(t, c, v) == [Type |-> t, Column |-> c, Value |-> v]

OpNodes == {Node(t, "", <<>>) : t \in CombinatorTypes \cup {"ExprIgnore"}}

FullLeaves ==
    {Node(t, c, <<v>>) : t \in SingleTypes, c \in Columns, v \in Values}
    \cup {Node(t, c, <<lo, hi>>) : t \in BetweenTypes, c \in Columns,
                                   lo \in Values, hi \in Values}
    \cup {Node(t, c, vv) : t \in InTypes, c \in Columns, vv \in SeqsUpTo(Values, MaxIn)}
    \cup {Node(t, c, <<>>) : t \in NullTypes, c \in Columns}

LeafA == Node("ExprEqual", "a", <<1>>)
LeafB == Node("ExprBetween", "b", <<3, 2>>)
LeafC == Node("ExprIn", "c", <<2, 1>>)

CoreNodes == OpNodes \cup {LeafA, LeafB, LeafC}

\* every list over the core alphabet, and every single leaf (every type, column
\* and operand)
SearchLists ==
    SeqsUpTo(CoreNodes, MaxLen) \cup {<<n>> : n \in FullLeaves}

-----------------------------------------------------------------------------
(* ExecValue *)

\* QToSExec{} : the empty fragment
EmptyExec == [text |-> <<>>, args |-> <<>>]

\* exec.Append(query, args...)
ExecAppend(exec, query, args) ==
    [text |-> exec.text \o query, args |-> exec.args \o args]

-----------------------------------------------------------------------------
(* strings *)

\* strings.Repeat("?,", n)
Repeat(n) == [k \in 1..(2 * n) |-> IF k % 2 = 1 THEN "?" ELSE ","]

\* strings.TrimSuffix(str, ",")
TrimSuffix(str) ==
    IF Len(str) > 0 /\ str[Len(str)] = "," THEN SubSeq(str, 1, Len(str) - 1) ELSE str

\* questionMarks := strings.TrimSuffix(strings.Repeat("?,", vv.Len()), ",")
QuestionMarksNoTrim(vv) == Repeat(Len(vv))
QuestionMarks(vv) == TrimSuffix(Repeat(Len(vv)))

\* for i := 0; i < vv.Len(); i++ { args = append(args, vv.Index(i).Interface()) }
InArgsShort(vv) == [k \in 1..(IF Len(vv) = 0 THEN 0 ELSE Len(vv) - 1) |-> vv[k]]
InArgs(vv) == [k \in 1..Len(vv) |-> vv[k]]

-----------------------------------------------------------------------------
(* the rendering of each case of the switch in SearchExec *)

\* case ExprAnd, after the pops: last2 is the second-to-top, last1 the top
AndExecParen(last2, last1) ==
    ExecAppend(EmptyExec, <<"(">> \o last2.text \o <<" AND ">> \o last1.text \o <<")">>,
               last2.args \o last1.args)
AndExecArgsSwapped(last2, last1) ==
    ExecAppend(EmptyExec, last2.text \o <<" AND ">> \o last1.text,
               last1.args \o last2.args)
AndExec(last2, last1) ==
    ExecAppend(EmptyExec, last2.text \o <<" AND ">> \o last1.text,
               last2.args \o last1.args)

\* case ExprOr
OrExecSwapped(last2, last1) ==
    ExecAppend(EmptyExec, <<"(">> \o last1.text \o <<" OR ">> \o last2.text \o <<")">>,
               last1.args \o last2.args)
OrExec(last2, last1) ==
    ExecAppend(EmptyExec, <<"(">> \o last2.text \o <<" OR ">> \o last1.text \o <<")">>,
               last2.args \o last1.args)

\* case ExprNot
NotExecNoArgs(last) ==
    ExecAppend(EmptyExec, <<"NOT(">> \o last.text \o <<")">>, <<>>)
NotExec(last) ==
    ExecAppend(EmptyExec, <<"NOT(">> \o last.text \o <<")">>, last.args)

\* the single-value comparisons: fmt.Sprintf("%s <op> ?", column), value
CaseExprEqual(n) == ExecAppend(EmptyExec, <<n.Column, " = ", "?">>, <<n.Value[1]>>)
CaseExprNotEqual(n) == ExecAppend(EmptyExec, <<n.Column, " <> ", "?">>, <<n.Value[1]>>)
CaseExprGreater(n) == ExecAppend(EmptyExec, <<n.Column, " > ", "?">>, <<n.Value[1]>>)
CaseExprGreaterEqual(n) == ExecAppend(EmptyExec, <<n.Column, " >= ", "?">>, <<n.Value[1]>>)
CaseExprLess(n) == ExecAppend(EmptyExec, <<n.Column, " < ", "?">>, <<n.Value[1]>>)
CaseExprLessEqual(n) == ExecAppend(EmptyExec, <<n.Column, " <= ", "?">>, <<n.Value[1]>>)
CaseExprLike(n) == ExecAppend(EmptyExec, <<n.Column, " LIKE ", "?">>, <<n.Value[1]>>)
CaseExprNotLike(n) == ExecAppend(EmptyExec, <<n.Column, " NOT LIKE ", "?">>, <<n.Value[1]>>)

\* case ExprBetween: vv.Index(0), vv.Index(1)
CaseExprBetweenSwapped(n) ==
    ExecAppend(EmptyExec, <<n.Column, " BETWEEN ", "?", " AND ", "?">>,
               <<n.Value[2], n.Value[1]>>)
CaseExprBetween(n) ==
    ExecAppend(EmptyExec, <<n.Column, " BETWEEN ", "?", " AND ", "?">>,
               <<n.Value[1], n.Value[2]>>)
CaseExprNotBetween(n) ==
    ExecAppend(EmptyExec, <<n.Column, " NOT BETWEEN ", "?", " AND ", "?">>,
               <<n.Value[1], n.Value[2]>>)

\* case ExprIn / ExprNotIn
CaseExprIn(n) ==
    ExecAppend(EmptyExec, <<n.Column, " IN (">> \o QuestionMarks(n.Value) \o <<")">>,
               InArgs(n.Value))
CaseExprNotIn(n) ==
    ExecAppend(EmptyExec, <<n.Column, " NOT IN (">> \o QuestionMarks(n.Value) \o <<")">>,
               InArgs(n.Value))

\* case ExprNull / ExprNotNull
CaseExprNull(n) == ExecAppend(EmptyExec, <<n.Column, " IS NULL">>, <<>>)
CaseExprNotNull(n) == ExecAppend(EmptyExec, <<n.Column, " IS NOT NULL">>, <<>>)

\* the fragment a leaf node renders to
LeafExec(n) ==
    CASE n.Type = "ExprEqual" -> CaseExprEqual(n)
      [] n.Type = "ExprNotEqual" -> CaseExprNotEqual(n)
      [] n.Type = "ExprGreater" -> CaseExprGreater(n)
      [] n.Type = "ExprGreaterEqual" -> CaseExprGreaterEqual(n)
      [] n.Type = "ExprLess" -> CaseExprLess(n)
      [] n.Type = "ExprLessEqual" -> CaseExprLessEqual(n)
      [] n.Type = "ExprBetween" -> CaseExprBetween(n)
      [] n.Type = "ExprNotBetween" -> CaseExprNotBetween(n)
      [] n.Type = "ExprIn" -> CaseExprIn(n)
      [] n.Type = "ExprNotIn" -> CaseExprNotIn(n)
      [] n.Type = "ExprLike" -> CaseExprLike(n)
      [] n.Type = "ExprNotLike" -> CaseExprNotLike(n)
      [] n.Type = "ExprNull" -> CaseExprNull(n)
      [] n.Type = "ExprNotNull" -> CaseExprNotNull(n)

-----------------------------------------------------------------------------
(* one iteration of the loop, as a function of the node and the stack.      *)
(* The outcome is the new stack and how the iteration ended: "running"      *)
(* (the loop goes on), "ErrInvalidSearchTree" (panic(ErrInvalidSearchTree)) *)
(* or "IndexOutOfRange" (Go's run-time panic of a slice index).             *)

Running == "running"
Returned == "returned"
ErrInvalidSearchTree == "ErrInvalidSearchTree"
IndexOutOfRange == "IndexOutOfRange"

Outcome(st, stk) == [status |-> st, stack |-> stk]

\* stack[:len(stack)-k]
Pop(stk, k) == SubSeq(stk, 1, Len(stk) - k)

\* if len(stack) < 2 { panic(ErrInvalidSearchTree) }
BinaryUnderflowOffByOne(stk) == Len(stk) < 1
BinaryUnderflow(stk) == Len(stk) < 2

\* if len(stack) < 1 { panic(ErrInvalidSearchTree) }
NotUnderflow(stk) == Len(stk) < 1

IterAnd(stk) ==
    IF BinaryUnderflow(stk) THEN Outcome(ErrInvalidSearchTree, stk)
    ELSE IF Len(stk) < 2 THEN Outcome(IndexOutOfRange, stk)
    ELSE Outcome(Running,
                 Append(Pop(stk, 2), AndExec(stk[Len(stk) - 1], stk[Len(stk)])))

IterOr(stk) ==
    IF BinaryUnderflow(stk) THEN Outcome(ErrInvalidSearchTree, stk)
    ELSE IF Len(stk) < 2 THEN Outcome(IndexOutOfRange, stk)
    ELSE Outcome(Running,
                 Append(Pop(stk, 2), OrExec(stk[Len(stk) - 1], stk[Len(stk)])))

IterNot(stk) ==
    IF NotUnderflow(stk) THEN Outcome(ErrInvalidSearchTree, stk)
    ELSE IF Len(stk) < 1 THEN Outcome(IndexOutOfRange, stk)
    ELSE Outcome(Running, Append(Pop(stk, 1), NotExec(stk[Len(stk)])))

\* case ExprIgnore: continue
IterIgnorePush(stk) == Outcome(Running, Append(stk, EmptyExec))
IterIgnore(stk) == Outcome(Running, stk)

\* a leaf case, then stack = append(stack, exec)
IterLeaf(n, stk) == Outcome(Running, Append(stk, LeafExec(n)))

Iter(n, stk) ==
    CASE n.Type = "ExprAnd" -> IterAnd(stk)
      [] n.Type = "ExprOr" -> IterOr(stk)
      [] n.Type = "ExprNot" -> IterNot(stk)
      [] n.Type = "ExprIgnore" -> IterIgnore(stk)
      [] OTHER -> IterLeaf(n, stk)

\* return stack[0]
ReturnStack0(stk) ==
    IF Len(stk) < 1 THEN [status |-> IndexOutOfRange, ret |-> EmptyExec]
    ELSE [status |-> Returned, ret |-> stk[1]]

\* SearchExec as a function of its argument: the loop from node k+1 on
RECURSIVE Loop(_, _, _)
Loop(list, k, stk) ==
    IF k = Len(list) THEN ReturnStack0(stk)
    ELSE LET o == Iter(list[k + 1], stk)
         IN IF o.status = Running THEN Loop(list, k + 1, o.stack)
            ELSE [status |-> o.status, ret |-> EmptyExec]

SearchExec(list) == Loop(list, 0, <<>>)

-----------------------------------------------------------------------------
(* no statement builder called *)

NoCall == [op |-> "none"]
NoOut == [status |-> "none"]
\* no row, and the serial sequence of the table at its start
NoTable == [rows |-> {}, seq |-> 1]

-----------------------------------------------------------------------------
(* the state machine: one call of SearchExec(s), one loop iteration a step *)

Init ==
    /\ s \in SearchLists
    /\ i = 0
    /\ stack = <<>>
    /\ status = Running
    /\ ret = EmptyExec
    /\ call = NoCall
    /\ out = NoOut
    /\ table = NoTable
    /\ heap = <<>>

AtNode(types) == status = Running /\ i < Len(s) /\ s[i + 1].Type \in types

Apply(o) ==
    /\ stack' = o.stack
    /\ status' = o.status
    /\ i' = IF o.status = Running THEN i + 1 ELSE i
    /\ UNCHANGED <<s, ret>>
    /\ UNCHANGED dvars

StepAnd == AtNode({"ExprAnd"}) /\ Apply(IterAnd(stack))
StepOr == AtNode({"ExprOr"}) /\ Apply(IterOr(stack))
StepNot == AtNode({"ExprNot"}) /\ Apply(IterNot(stack))
StepIgnore == AtNode({"ExprIgnore"}) /\ Apply(IterIgnore(stack))
StepLeaf == AtNode(LeafTypes) /\ Apply(IterLeaf(s[i + 1], stack))

Return ==
    /\ status = Running
    /\ i = Len(s)
    /\ LET r == ReturnStack0(stack)
       IN /\ status' = r.status
          /\ ret' = r.ret
    /\ UNCHANGED <<s, i, stack>>
    /\ UNCHANGED dvars

Next == StepAnd \/ StepOr \/ StepNot \/ StepIgnore \/ StepLeaf \/ Return

Spec == Init /\ [][Next]_vars

-----------------------------------------------------------------------------
(* helpers of the properties *)

AndNode == Node("ExprAnd", "", <<>>)
OrNode == Node("ExprOr", "", <<>>)
NotNode == Node("ExprNot", "", <<>>)
IgnoreNode == Node("ExprIgnore", "", <<>>)

\* the node the loop is about to process
Cur == s[i + 1]
\* the node the loop processed last (i > 0)
Last == s[i]
Top(stk) == stk[Len(stk)]
Finished == status # Running

\* number of "?" placeholders of a text
Placeholders(text) == Cardinality({k \in 1..Len(text) : text[k] = "?"})

\* every fragment the evaluation holds: the stack and the returned one
Fragments ==
    {stack[k] : k \in 1..Len(stack)} \cup (IF status = Returned THEN {ret} ELSE {})

\* n placeholders separated by commas
Commas(n) == [k \in 1..(2 * n - 1) |-> IF k % 2 = 1 THEN "?" ELSE ","]

\* the list without its Ignore nodes
StripIgnore(list) == SelectSeq(list, LAMBDA n : n.Type # "ExprIgnore")

-----------------------------------------------------------------------------
(* C1: an And or Or node reached with fewer than 2 fragments on the stack,  *)
(* or a Not node reached with no fragment, ends SearchExec with             *)
(* panic(ErrInvalidSearchTree); so does a SearchList that is a lone And.    *)
C1_UnderflowPanics ==
    [][/\ (/\ status = Running
           /\ i < Len(s)
           /\ \/ Cur.Type \in {"ExprAnd", "ExprOr"} /\ Len(stack) < 2
              \/ Cur.Type = "ExprNot" /\ Len(stack) < 1)
          => status' = ErrInvalidSearchTree
       /\ (status = Running /\ s = <<AndNode>>) => status' = ErrInvalidSearchTree
      ]_vars

C1_Witness ==
    \/ s = <<AndNode>> /\ status = ErrInvalidSearchTree
    \/ /\ status = ErrInvalidSearchTree
       /\ Cur.Type = "ExprNot"
       /\ Len(stack) = 0
       /\ i > 0

(* C2: SearchExec of a non-empty SearchList returns only when exactly one   *)
(* fragment is left after the last node; with zero or with two or more      *)
(* fragments left it fails with ErrInvalidSearchTree.                       *)
C2_FinalStackChecked ==
    (Finished /\ Len(s) > 0 /\ i = Len(s)) =>
        /\ status = Returned => Len(stack) = 1
        /\ Len(stack) # 1 => status = ErrInvalidSearchTree

(* C3: an Or node with at least two fragments on the stack pops right (top) *)
(* and left (second-to-top) and pushes "(" left " OR " right ")" with the   *)
(* arguments of left followed by those of right; [A, B, C, Or, And]         *)
(* compiles to "a AND (b OR c)" with the arguments of A, B, C in order.     *)
C3_OrParenthesized ==
    /\ [][(status = Running /\ i < Len(s) /\ Cur.Type = "ExprOr" /\ Len(stack) >= 2)
          => LET right == stack[Len(stack)]
                 left == stack[Len(stack) - 1]
             IN /\ status' = Running
                /\ stack' = Append(SubSeq(stack, 1, Len(stack) - 2),
                                   [text |-> <<"(">> \o left.text \o <<" OR ">>
                                             \o right.text \o <<")">>,
                                    args |-> left.args \o right.args])
         ]_vars
    /\ [](s = <<LeafA, LeafB, LeafC, OrNode, AndNode>> /\ status = Returned
          => /\ ret.text = <<"a", " = ", "?", " AND ", "(",
                             "b", " BETWEEN ", "?", " AND ", "?", " OR ",
                             "c", " IN (", "?", ",", "?", ")", ")">>
             /\ ret.args = <<1, 3, 2, 2, 1>>)

C3_Witness == s = <<LeafA, LeafB, LeafC, OrNode, AndNode>> /\ status = Returned

(* C4: an And node with at least two fragments on the stack pops right and  *)
(* left and pushes left " AND " right, no parentheses added, with the       *)
(* arguments of left followed by those of right.                            *)
C4_AndNoParentheses ==
    [][(status = Running /\ i < Len(s) /\ Cur.Type = "ExprAnd" /\ Len(stack) >= 2)
       => LET right == stack[Len(stack)]
              left == stack[Len(stack) - 1]
          IN /\ status' = Running
             /\ stack' = Append(SubSeq(stack, 1, Len(stack) - 2),
                                [text |-> left.text \o <<" AND ">> \o right.text,
                                 args |-> left.args \o right.args])
      ]_vars

C4_Witness ==
    /\ status = Running
    /\ i >= 3
    /\ Last.Type = "ExprAnd"
    /\ Len(stack) >= 1
    /\ Len(Top(stack).args) >= 3

(* C5: a Not node with at least one fragment on the stack pops one fragment *)
(* and pushes "NOT(" fragment ")" with the same arguments; the rest of the  *)
(* stack is unchanged.                                                      *)
C5_NotWraps ==
    [][(status = Running /\ i < Len(s) /\ Cur.Type = "ExprNot" /\ Len(stack) >= 1)
       => LET last == stack[Len(stack)]
          IN /\ status' = Running
             /\ Len(stack') = Len(stack)
             /\ SubSeq(stack', 1, Len(stack) - 1) = SubSeq(stack, 1, Len(stack) - 1)
             /\ Top(stack') = [text |-> <<"NOT(">> \o last.text \o <<")">>,
                               args |-> last.args]
      ]_vars

C5_Witness ==
    /\ status = Running
    /\ i >= 2
    /\ Last.Type = "ExprNot"
    /\ Len(stack) >= 2
    /\ Len(Top(stack).args) >= 1

(* C6: an Ignore node leaves the stack untouched, and a SearchList that     *)
(* compiles to a fragment compiles to the same text and arguments with      *)
(* Ignore nodes inserted anywhere.                                          *)
C6_IgnoreSkipped ==
    /\ [][(status = Running /\ i < Len(s) /\ Cur.Type = "ExprIgnore")
          => (stack' = stack /\ status' = Running)]_vars
    /\ [](Finished =>
            LET base == SearchExec(StripIgnore(s))
            IN base.status = Returned => (status = Returned /\ ret = base.ret))

C6_Witness ==
    /\ status = Returned
    /\ Len(StripIgnore(s)) >= 3
    /\ Len(s) > Len(StripIgnore(s))
    /\ Len(stack) = 1
    /\ s[1].Type = "ExprIgnore"

(* C7: every fragment on the stack, and the returned fragment, has as many  *)
(* "?" placeholders as arguments: one for a single-value leaf, two for      *)
(* Between/NotBetween, N for In/NotIn of length N, none for Null/NotNull,   *)
(* and the operands' sum for And/Or/Not.                                    *)
LeafPlaceholders(n) ==
    CASE n.Type \in SingleTypes -> 1
      [] n.Type \in BetweenTypes -> 2
      [] n.Type \in InTypes -> Len(n.Value)
      [] n.Type \in NullTypes -> 0

C7_PlaceholdersMatchArgs ==
    /\ [](\A f \in Fragments : Placeholders(f.text) = Len(f.args))
    /\ []((i > 0 /\ Last.Type \in LeafTypes)
          => /\ Placeholders(Top(stack).text) = LeafPlaceholders(Last)
             /\ Len(Top(stack).args) = LeafPlaceholders(Last))
    /\ [][(status = Running /\ i < Len(s) /\ status' = Running
           /\ Cur.Type \in CombinatorTypes)
          => LET k == IF Cur.Type = "ExprNot" THEN 1 ELSE 2
                 sum == IF k = 1 THEN Len(Top(stack).args)
                        ELSE Len(stack[Len(stack) - 1].args) + Len(Top(stack).args)
             IN /\ Placeholders(Top(stack').text) = sum
                /\ Len(Top(stack').args) = sum
         ]_vars

C7_Witness ==
    /\ status = Returned
    /\ Len(s) = 4
    /\ Len(stack) = 1
    /\ Placeholders(ret.text) = 4
    /\ \E k \in 1..Len(s) : s[k].Type = "ExprIn"
    /\ \E k \in 1..Len(s) : s[k].Type = "ExprBetween"
    /\ \E k \in 1..Len(s) : s[k].Type = "ExprNot"

(* C8: a single leaf node compiles to the reference form of its type, with  *)
(* the operand value as the only argument, both bounds (lower first) for    *)
(* Between/NotBetween, and no argument for Null/NotNull.                    *)
ReferenceOp(type) ==
    CASE type = "ExprEqual" -> " = "
      [] type = "ExprNotEqual" -> " <> "
      [] type = "ExprGreater" -> " > "
      [] type = "ExprGreaterEqual" -> " >= "
      [] type = "ExprLess" -> " < "
      [] type = "ExprLessEqual" -> " <= "
      [] type = "ExprLike" -> " LIKE "
      [] type = "ExprNotLike" -> " NOT LIKE "

C8_LeafReferenceForms ==
    (Len(s) = 1 /\ status = Returned) =>
        LET n == s[1]
        IN /\ n.Type \in SingleTypes =>
                ret = [text |-> <<n.Column, ReferenceOp(n.Type), "?">>,
                       args |-> <<n.Value[1]>>]
           /\ n.Type = "ExprBetween" =>
                ret = [text |-> <<n.Column, " BETWEEN ", "?", " AND ", "?">>,
                       args |-> <<n.Value[1], n.Value[2]>>]
           /\ n.Type = "ExprNotBetween" =>
                ret = [text |-> <<n.Column, " NOT BETWEEN ", "?", " AND ", "?">>,
                       args |-> <<n.Value[1], n.Value[2]>>]
           /\ n.Type = "ExprNull" =>
                ret = [text |-> <<n.Column, " IS NULL">>, args |-> <<>>]
           /\ n.Type = "ExprNotNull" =>
                ret = [text |-> <<n.Column, " IS NOT NULL">>, args |-> <<>>]

C8_Witness ==
    /\ status = Returned
    /\ s = <<Node("ExprBetween", "b", <<1, 3>>)>>
    /\ ret.args = <<1, 3>>

(* C9: an In (NotIn) leaf with an operand of length N >= 1 renders          *)
(* "col IN (?,...,?)" ("col NOT IN (...)") with N placeholders separated by *)
(* commas, no trailing comma, and the operand's elements as arguments in    *)
(* order; [1,2,3] compiles to "col IN (?,?,?)" with arguments [1,2,3].      *)
C9_InPlaceholders ==
    /\ (i > 0 /\ Last.Type \in InTypes /\ Len(Last.Value) >= 1) =>
          LET f == Top(stack)
              kw == IF Last.Type = "ExprIn" THEN " IN (" ELSE " NOT IN ("
          IN /\ f.text = <<Last.Column, kw>> \o Commas(Len(Last.Value)) \o <<")">>
             /\ f.text[Len(f.text) - 1] = "?"
             /\ f.args = Last.Value
    /\ (s = <<Node("ExprIn", "c", <<1, 2, 3>>)>> /\ status = Returned) =>
          ret = [text |-> <<"c", " IN (", "?", ",", "?", ",", "?", ")">>,
                 args |-> <<1, 2, 3>>]

C9_Witness == s = <<Node("ExprIn", "c", <<1, 2, 3>>)>> /\ status = Returned

(* C10: an In or NotIn leaf with an empty operand is rejected or compiled   *)
(* to an always-false / always-true fragment: no fragment holds the text    *)
(* "col IN ()" or "col NOT IN ()".                                          *)
HasEmptyIn(text) ==
    \E k \in 1..(Len(text) - 1) :
        text[k] \in {" IN (", " NOT IN ("} /\ text[k + 1] = ")"

C10_NoEmptyIn == \A f \in Fragments : ~HasEmptyIn(f.text)

-----------------------------------------------------------------------------
(* ConditionExec *)

\* longest SearchList handed to ConditionExec
MaxCondLen == 3

\* strings.Join(list, ",")
Join(list) ==
    [k \in 1..(2 * Len(list) - 1) |-> IF k % 2 = 1 THEN list[(k + 1) \div 2] ELSE ","]

\* fmt.Sprintf("%d", n)
Itoa(n) == ToString(n)

\* if len(search) > 0
HasSearchAlways(search) == Len(search) >= 0
HasSearch(search) == Len(search) > 0

\* exec.Append(" WHERE "+searchExec.Source(), searchExec.Args()...)
WhereClause(exec, searchExec) ==
    ExecAppend(exec, <<" WHERE ">> \o searchExec.text, searchExec.args)

\* if limit != 0 { exec = exec.Append(fmt.Sprintf(" LIMIT %d", limit)) }
LimitClause(exec, limit) ==
    IF limit # 0 THEN ExecAppend(exec, <<" LIMIT ", Itoa(limit)>>, <<>>) ELSE exec

\* if offset != 0 { exec = exec.Append(fmt.Sprintf(" OFFSET %d", offset)) }
OffsetClause(exec, offset) ==
    IF offset # 0 THEN ExecAppend(exec, <<" OFFSET ", Itoa(offset)>>, <<>>) ELSE exec

\* if len(orderBy) > 0 { exec = exec.Append(" ORDER BY " + strings.Join(__list, ",")) }
OrderByClause(exec, orderBy) ==
    IF Len(orderBy) > 0 THEN ExecAppend(exec, <<" ORDER BY ">> \o Join(orderBy), <<>>)
    ELSE exec

\* if len(groupBy) > 0 { exec = exec.Append(" GROUP BY " + strings.Join(__list, ",")) }
GroupByClause(exec, groupBy) ==
    IF Len(groupBy) > 0 THEN ExecAppend(exec, <<" GROUP BY ">> \o Join(groupBy), <<>>)
    ELSE exec

\* the clauses after WHERE, applied to the fragment built so far
TailClausesOrderFirst(exec, limit, offset, orderBy, groupBy) ==
    OffsetClause(LimitClause(GroupByClause(OrderByClause(exec, orderBy), groupBy),
                             limit), offset)
TailClauses(exec, limit, offset, orderBy, groupBy) ==
    GroupByClause(OrderByClause(OffsetClause(LimitClause(exec, limit), offset),
                                orderBy), groupBy)

\* the outcome of ConditionExec: a panic of SearchExec ends the call
ConditionExec(search, limit, offset, orderBy, groupBy) ==
    IF HasSearch(search)
    THEN LET r == SearchExec(search)
         IN IF r.status # Returned THEN [status |-> r.status, exec |-> EmptyExec]
            ELSE [status |-> Returned,
                  exec |-> TailClauses(WhereClause(EmptyExec, r.ret),
                                       limit, offset, orderBy, groupBy)]
    ELSE [status |-> Returned,
          exec |-> TailClauses(EmptyExec, limit, offset, orderBy, groupBy)]

CondSearches == SeqsUpTo({LeafA, LeafC, Node("ExprAnd", "", <<>>),
                          Node("ExprIgnore", "", <<>>)}, MaxCondLen)
Limits == {0 - 1, 0, 2}
Offsets == {0, 3}
ColumnLists == {<<>>, <<"a">>, <<"c", "b">>}

CondCalls ==
    [op : {"ConditionExec"}, search : CondSearches, limit : Limits, offset : Offsets,
     orderBy : ColumnLists, groupBy : ColumnLists]

\* SearchExec is not running on its own
SearchIdle ==
    /\ s = <<>>
    /\ i = 0
    /\ stack = <<>>
    /\ status = "idle"
    /\ ret = EmptyExec

InitCondition ==
    /\ SearchIdle
    /\ call \in CondCalls
    /\ out = NoOut
    /\ table = NoTable
    /\ heap = <<>>

CallConditionExec ==
    /\ call.op = "ConditionExec"
    /\ out = NoOut
    /\ out' = ConditionExec(call.search, call.limit, call.offset,
                            call.orderBy, call.groupBy)
    /\ UNCHANGED <<call, table>>
    /\ UNCHANGED svars
    /\ UNCHANGED heap

NextCondition == CallConditionExec

SpecCondition == InitCondition /\ [][NextCondition]_vars

\* the positions of a clause keyword in a text
KeywordAt(text, kw) == {k \in 1..Len(text) : text[k] = kw}

\* every keyword at most once, and in the order of the sequence order
ClausesInOrder(text, order) ==
    /\ \A k \in 1..Len(order) : Cardinality(KeywordAt(text, order[k])) <= 1
    /\ \A k1, k2 \in 1..Len(order) :
          k1 < k2 => \A p1 \in KeywordAt(text, order[k1]),
                        p2 \in KeywordAt(text, order[k2]) : p1 < p2

ConditionDone == call.op = "ConditionExec" /\ out # NoOut

C12_EmptySearchNoWhere ==
    (ConditionDone /\ call.search = <<>>) =>
        /\ out.status = Returned
        /\ KeywordAt(out.exec.text, " WHERE ") = {}
        /\ out.exec.args = <<>>
        /\ (call.limit = 0 /\ call.offset = 0 /\ call.orderBy = <<>>
            /\ call.groupBy = <<>>) => out.exec = EmptyExec

C12_Witness ==
    /\ ConditionDone
    /\ call.search = <<>>
    /\ call.limit = 0
    /\ call.offset = 0
    /\ call.orderBy = <<>>
    /\ call.groupBy = <<>>
    /\ out.exec = EmptyExec

(* C13: the conditions fragment places its clauses in the order WHERE,      *)
(* ORDER BY, GROUP BY, LIMIT, OFFSET.                                       *)
C13_ReadmeClauseOrder ==
    (ConditionDone /\ out.status = Returned) =>
        ClausesInOrder(out.exec.text,
                       <<" WHERE ", " ORDER BY ", " GROUP BY ", " LIMIT ", " OFFSET ">>)

-----------------------------------------------------------------------------
(* CreateTable *)

\* number of index names a model can declare (plain and unique each)
MaxIndexes == 2

\* the orders a range over a Go map can visit the keys of the map in
Orders(keys) ==
    {q \in [1..Cardinality(keys) -> keys] : {q[k] : k \in DOMAIN q} = keys}

Range(q) == {q[k] : k \in DOMAIN q}

\* strings.Join(list, ",") of a list of texts
RECURSIVE JoinTexts(_)
JoinTexts(list) ==
    IF Len(list) = 0 THEN <<>>
    ELSE IF Len(list) = 1 THEN list[1]
    ELSE list[1] \o <<",">> \o JoinTexts(Tail(list))

\* the fields of the model, as model.GetSqlFields() returns them
FieldID == [Name |-> "ID", Column |-> "id", SqlType |-> "INTEGER",
            AutoIncrement |-> TRUE, Attrs |-> <<>>]
FieldName == [Name |-> "Name", Column |-> "name", SqlType |-> "VARCHAR(64)",
              AutoIncrement |-> FALSE,
              Attrs |-> ("NOT NULL" :> "") @@ ("DEFAULT" :> "'x'")]
FieldUserID == [Name |-> "UserID", Column |-> "user_id", SqlType |-> "INTEGER",
                AutoIncrement |-> FALSE, Attrs |-> <<>>]
SqlFields == <<FieldID, FieldName, FieldUserID>>

\* model.GetFieldWithName(name)
GetFieldWithName(model, name) ==
    CHOOSE f \in Range(model.fields) : f.Name = name

\* the columns of the k-th index: one column or two
IndexColumns(k) == IF k % 2 = 1 THEN <<"name">> ELSE <<"name", "user_id">>

\* maps from index name to the columns of the index
IndexMapsOver(prefix) ==
    {[key \in {prefix \o ToString(k) : k \in ks} |->
         IndexColumns(CHOOSE k \in ks : prefix \o ToString(k) = key)] :
     ks \in SUBSET (1..MaxIndexes)}

Models ==
    [Name : {"product"}, fields : {SqlFields},
     primary : {<<"id">>, <<"id", "name">>},
     indexMap : IndexMapsOver("idx_"), uniqueIndexMap : IndexMapsOver("uq_")]

\* foreign map[string]ForeignKey, keyed by the name of the field
ForeignMaps ==
    UNION {[keys -> {[Model |-> "user", Column |-> "id"]}] :
           keys \in SUBSET {"UserID", "Name"}}

\* the column definition of one field, its attributes ranged in attrOrder
RECURSIVE AttrText(_, _)
AttrText(attrs, attrOrder) ==
    IF Len(attrOrder) = 0 THEN <<>>
    ELSE LET k == attrOrder[1]
         IN (IF attrs[k] = "" THEN <<" ", k>> ELSE <<" ", k, "=", attrs[k]>>)
            \o AttrText(attrs, Tail(attrOrder))

FieldDef(sqlField, attrOrder) ==
    (IF sqlField.AutoIncrement THEN <<sqlField.Column, " SERIAL">>
     ELSE <<sqlField.Column, " ", sqlField.SqlType>>)
    \o AttrText(sqlField.Attrs, attrOrder)

\* fmt.Sprintf("PRIMARY KEY(%s)", strings.Join(primaryStrList, ","))
PrimaryKeyDef(model) == <<"PRIMARY KEY(">> \o Join(model.primary) \o <<")">>

\* fmt.Sprintf(`FOREIGN KEY (%s) REFERENCES "%s"(%s)`, ...)
ForeignKeyDef(model, name, key) ==
    <<"FOREIGN KEY (", GetFieldWithName(model, name).Column, ") REFERENCES \"",
      key.Model, "\"(", key.Column, ")">>

\* fmt.Sprintf(`CREATE TABLE "%s" (%s)`, model.Name, strings.Join(strList, ","))
CreateTableStr(model, foreign, attrOrders, foreignOrder) ==
    LET strList ==
            [k \in 1..Len(model.fields) |-> FieldDef(model.fields[k], attrOrders[k])]
            \o <<PrimaryKeyDef(model)>>
            \o [k \in 1..Len(foreignOrder) |->
                    ForeignKeyDef(model, foreignOrder[k], foreign[foreignOrder[k]])]
    IN <<"CREATE TABLE \"", model.Name, "\" (">> \o JoinTexts(strList) \o <<")">>

\* fmt.Sprintf(`CREATE INDEX %s ON "%s"(%s)`, key, model.Name, ...)
IndexStr(create, model, key, fieldList) ==
    <<create, key, " ON \"", model.Name, "\"(">> \o Join(fieldList) \o <<")">>

IndexStrList(create, model, indexMap, order) ==
    [k \in 1..Len(order) |-> IndexStr(create, model, order[k], indexMap[order[k]])]

\* QToSExec{DefaultExec{sqlStr, nil}}
Statement(sqlStr) == [text |-> sqlStr, args |-> <<>>]

\* execlist: the CREATE TABLE statement, the plain indexes, the unique indexes
ExecListUniqueFirst(sqlStr, indexStrList, uniqueIndexStrList) ==
    <<Statement(sqlStr)>>
    \o [k \in 1..Len(uniqueIndexStrList) |-> Statement(uniqueIndexStrList[k])]
    \o [k \in 1..Len(indexStrList) |-> Statement(indexStrList[k])]
ExecList(sqlStr, indexStrList, uniqueIndexStrList) ==
    <<Statement(sqlStr)>>
    \o [k \in 1..Len(indexStrList) |-> Statement(indexStrList[k])]
    \o [k \in 1..Len(uniqueIndexStrList) |-> Statement(uniqueIndexStrList[k])]

\* CreateTable, the maps ranged in the given orders
CreateTable(model, foreign, attrOrders, foreignOrder, indexOrder, uniqueOrder) ==
    ExecList(CreateTableStr(model, foreign, attrOrders, foreignOrder),
             IndexStrList("CREATE INDEX ", model, model.indexMap, indexOrder),
             IndexStrList("CREATE UNIQUE INDEX ", model, model.uniqueIndexMap,
                          uniqueOrder))

\* one order of the attributes for each field of the model
AttrOrders(model) ==
    {q \in [1..Len(model.fields) -> UNION {Orders(DOMAIN model.fields[k].Attrs) :
                                            k \in 1..Len(model.fields)}] :
        \A k \in 1..Len(model.fields) : q[k] \in Orders(DOMAIN model.fields[k].Attrs)}

InitCreateTable ==
    /\ SearchIdle
    /\ call \in [op : {"CreateTable"}, model : Models, foreign : ForeignMaps]
    /\ out = NoOut
    /\ table = NoTable
    /\ heap = <<>>

\* one call of CreateTable; the model and the foreign map stay as they are,
\* so a later step is another call with the same arguments
CallCreateTable ==
    /\ call.op = "CreateTable"
    /\ \E attrOrders \in AttrOrders(call.model),
          foreignOrder \in Orders(DOMAIN call.foreign),
          indexOrder \in Orders(DOMAIN call.model.indexMap),
          uniqueOrder \in Orders(DOMAIN call.model.uniqueIndexMap) :
            out' = [status |-> Returned,
                    execlist |-> CreateTable(call.model, call.foreign, attrOrders,
                                             foreignOrder, indexOrder, uniqueOrder)]
    /\ UNCHANGED <<call, table>>
    /\ UNCHANGED svars
    /\ UNCHANGED heap

NextCreateTable == CallCreateTable

SpecCreateTable == InitCreateTable /\ [][NextCreateTable]_vars

CreateTableDone == call.op = "CreateTable" /\ out # NoOut

\* the statements of the list that start with the keyword and name the key
StatementsOf(execlist, create, key) ==
    {k \in 1..Len(execlist) :
        execlist[k].text[1] = create /\ execlist[k].text[2] = key}

(* C14: CreateTable returns the CREATE TABLE statement first, then one      *)
(* CREATE INDEX statement per entry of the index map, then one CREATE       *)
(* UNIQUE INDEX statement per entry of the unique-index map: 1 + #indexes + *)
(* #unique indexes statements, every plain index before every unique one.   *)
C14_CreateTableStatements ==
    CreateTableDone =>
        LET l == out.execlist
            nIdx == Cardinality(DOMAIN call.model.indexMap)
            nUq == Cardinality(DOMAIN call.model.uniqueIndexMap)
        IN /\ Len(l) = 1 + nIdx + nUq
           /\ l[1].text[1] = "CREATE TABLE \""
           /\ \A k \in 2..Len(l) : l[k].text[1] # "CREATE TABLE \""
           /\ \A k \in 2..(1 + nIdx) : l[k].text[1] = "CREATE INDEX "
           /\ \A k \in (2 + nIdx)..Len(l) : l[k].text[1] = "CREATE UNIQUE INDEX "
           /\ \A key \in DOMAIN call.model.indexMap :
                 Cardinality(StatementsOf(l, "CREATE INDEX ", key)) = 1
           /\ \A key \in DOMAIN call.model.uniqueIndexMap :
                 Cardinality(StatementsOf(l, "CREATE UNIQUE INDEX ", key)) = 1

C14_Witness ==
    /\ CreateTableDone
    /\ Cardinality(DOMAIN call.model.indexMap) = 2
    /\ Cardinality(DOMAIN call.model.uniqueIndexMap) = 1
    /\ Len(out.execlist) = 4
    /\ out.execlist[3].text[1] = "CREATE INDEX "
    /\ out.execlist[4].text[1] = "CREATE UNIQUE INDEX "

\* the FOREIGN KEY clauses of a CREATE TABLE text that name the column
ForeignClauses(text, column) ==
    {k \in 1..(Len(text) - 1) : text[k] = "FOREIGN KEY (" /\ text[k + 1] = column}

(* C23, as claimed: two calls of CreateTable with the same model and the    *)
(* same foreign-key map return the same statements in the same order,       *)
(* whatever order the maps are ranged in, and each declared foreign key     *)
(* yields exactly one FOREIGN KEY clause.                                   *)
C23_CreateTableDeterministic ==
    /\ [][(CreateTableDone /\ CreateTableDone' /\ call' = call)
          => out'.execlist = out.execlist]_vars
    /\ [](CreateTableDone =>
            /\ \A name \in DOMAIN call.foreign :
                  Cardinality(ForeignClauses(out.execlist[1].text,
                                  GetFieldWithName(call.model, name).Column)) = 1
            /\ Cardinality({k \in 1..Len(out.execlist[1].text) :
                               out.execlist[1].text[k] = "FOREIGN KEY ("})
                 = Cardinality(DOMAIN call.foreign))

-----------------------------------------------------------------------------
(* insertExec, InsertExec, ReplaceExec *)

\* largest key of a row, given or generated
MaxKey == 2

\* interface{} nil / SQL NULL, and the nil error
Null == 0 - 1
Nil == "nil"

\* the models of the insert path: two columns, the primary key being the
\* auto-increment id, the plain column name, or both
InsertFields == <<FieldID, FieldName>>
InsertModels ==
    [Name : {"product"}, fields : {InsertFields},
     primary : {<<"id">>, <<"name">>, <<"id", "name">>},
     indexMap : {<<>>}, uniqueIndexMap : {<<>>}]

ModelColumns(model) == {model.fields[k].Column : k \in 1..Len(model.fields)}

FieldOfColumn(model, column) ==
    CHOOSE f \in Range(model.fields) : f.Column = column

\* model.GetOnePrimary()
GetOnePrimary(model) == FieldOfColumn(model, model.primary[1])

ColumnValue(c, v) == [Column |-> c, Value |-> v]

\* the column values of a call: id and name each given or left out, in the
\* order of the model or the reverse, at least one
ColumnValueLists ==
    LET ids == {<<>>} \cup {<<ColumnValue("id", v)>> : v \in 1..MaxKey}
        names == {<<>>} \cup {<<ColumnValue("name", v)>> : v \in 1..2}
    IN {cv \in {a \o b : a \in ids, b \in names} \cup {b \o a : a \in ids, b \in names} :
          Len(cv) > 0}

ColumnsOf(columnValues) == [k \in 1..Len(columnValues) |-> columnValues[k].Column]
ValuesOf(columnValues) == [k \in 1..Len(columnValues) |-> columnValues[k].Value]

\* insertExec: INSERT INTO "name"(columns) VALUES(?,...) with one argument
\* per column value
insertExec(model, columnValues) ==
    ExecAppend(EmptyExec,
               <<"INSERT INTO \"", model.Name, "\"(">>
               \o Join(ColumnsOf(columnValues))
               \o <<") VALUES(">>
               \o Join([k \in 1..Len(columnValues) |-> "?"])
               \o <<")">>,
               ValuesOf(columnValues))

\* if len(model.GetPrimary()) == 1 && model.GetOnePrimary().AutoIncrement()
HasGeneratedKey(model) ==
    Len(model.primary) = 1 /\ GetOnePrimary(model).AutoIncrement

InsertExecNoReturning(model, columnValues) == insertExec(model, columnValues)
InsertExec(model, columnValues) ==
    LET exec == insertExec(model, columnValues)
    IN IF HasGeneratedKey(model)
       THEN ExecAppend(exec, <<" RETURNING ", GetOnePrimary(model).Column>>, <<>>)
       ELSE exec

\* primaryKeyNames: the columns of model.GetPrimary()
PrimaryKeyNamesFirstOnly(model) == <<model.primary[1]>>
PrimaryKeyNames(model) == model.primary

\* recordList: r.Column()+" = Excluded."+r.Column()
RecordList(columnValues) ==
    [k \in 1..Len(columnValues) |->
        <<columnValues[k].Column, " = Excluded.", columnValues[k].Column>>]

\* fmt.Sprintf(" ON CONFLICT(%s) DO UPDATE SET %s", ...)
ConflictClause(model, columnValues) ==
    <<" ON CONFLICT(">> \o Join(PrimaryKeyNames(model)) \o <<") DO UPDATE SET ">>
    \o JoinTexts(RecordList(columnValues))

ReplaceExecSetArgs(model, columnValues) ==
    ExecAppend(insertExec(model, columnValues),
               <<" ON CONFLICT(">> \o Join(PrimaryKeyNames(model))
               \o <<") DO UPDATE SET ">>
               \o JoinTexts([k \in 1..Len(columnValues) |->
                                <<columnValues[k].Column, " = ", "?">>]),
               ValuesOf(columnValues))
ReplaceExec(model, columnValues) ==
    ExecAppend(insertExec(model, columnValues), ConflictClause(model, columnValues), <<>>)

-----------------------------------------------------------------------------
(* the connection: what running a statement of the insert path does to the *)
(* table the model is bound to, the table being keyed by the primary key   *)

ErrNoRows == "sql.ErrNoRows"
ErrConnDone == "sql.ErrConnDone"
ErrUniqueViolation == "pq: duplicate key value violates unique constraint"
ErrNotNullViolation == "pq: null value violates not-null constraint"
ErrNoConstraint == "pq: no unique constraint matching the ON CONFLICT specification"
ErrSyntax == "pq: syntax error"

\* the first position of a token in a text, 0 when the text has no such token
IndexOf(text, tok) ==
    IF \E k \in 1..Len(text) : text[k] = tok
    THEN CHOOSE k \in 1..Len(text) :
            text[k] = tok /\ \A j \in 1..(k - 1) : text[j] # tok
    ELSE 0

NoCommas(text) == SelectSeq(text, LAMBDA x : x # ",")

\* the column list of INSERT INTO "t"(...)
StmtColumns(text) ==
    NoCommas(SubSeq(text, IndexOf(text, "\"(") + 1, IndexOf(text, ") VALUES(") - 1))

\* the number of placeholders of VALUES(...)
StmtValueCount(text) ==
    LET from == IndexOf(text, ") VALUES(")
        rest == SubSeq(text, from + 1, Len(text))
    IN Len(NoCommas(SubSeq(rest, 1, IndexOf(rest, ")") - 1)))

StmtHasConflict(text) == IndexOf(text, " ON CONFLICT(") # 0

\* the conflict target of ON CONFLICT(...)
StmtConflictTarget(text) ==
    NoCommas(SubSeq(text, IndexOf(text, " ON CONFLICT(") + 1,
                    IndexOf(text, ") DO UPDATE SET ") - 1))

\* the assignments of DO UPDATE SET: <<column, " = Excluded.", source column>>
StmtSetList(text) ==
    LET from == IndexOf(text, ") DO UPDATE SET ")
        toks == NoCommas(SubSeq(text, from + 1, Len(text)))
    IN [k \in 1..(Len(toks) \div 3) |->
           [Column |-> toks[3 * k - 2], Op |-> toks[3 * k - 1], Source |-> toks[3 * k]]]

\* the column of RETURNING, "" when the statement has none
StmtReturning(text) ==
    IF IndexOf(text, " RETURNING ") = 0 THEN ""
    ELSE text[IndexOf(text, " RETURNING ") + 1]

\* the row the statement proposes: the given values, the next value of the
\* serial sequence for an auto-increment column left out, NULL otherwise
ProposedRow(model, exec, seq) ==
    LET cols == StmtColumns(exec.text)
    IN [c \in ModelColumns(model) |->
          IF \E k \in 1..Len(cols) : cols[k] = c
          THEN exec.args[CHOOSE k \in 1..Len(cols) : cols[k] = c]
          ELSE IF FieldOfColumn(model, c).AutoIncrement THEN seq
          ELSE Null]

UsesSequence(model, exec) ==
    LET cols == Range(StmtColumns(exec.text))
    IN \E c \in ModelColumns(model) \ cols : FieldOfColumn(model, c).AutoIncrement

SameKey(model, r1, r2) == \A k \in 1..Len(model.primary) :
                              r1[model.primary[k]] = r2[model.primary[k]]

DbResult(err, rows, seq, row) == [err |-> err, rows |-> rows, seq |-> seq, row |-> row]

\* the outcome of the statement on the table when the connection works:
\* the error or nil, the rows and the sequence after it, and the row written
Execute(model, exec, tbl) ==
    LET text == exec.text
        fail(e) == DbResult(e, tbl.rows, tbl.seq, <<>>)
        new == ProposedRow(model, exec, tbl.seq)
        seq2 == IF UsesSequence(model, exec) THEN tbl.seq + 1 ELSE tbl.seq
        hit == {r \in tbl.rows : SameKey(model, r, new)}
        nCols == Len(StmtColumns(text))
        conflict == StmtHasConflict(text)
        setList == StmtSetList(text)
    IN IF \/ nCols = 0
          \/ StmtValueCount(text) # nCols
          \/ Len(exec.args) # nCols
          \/ conflict /\ Len(setList) = 0
          \/ conflict /\ \E k \in 1..Len(setList) : setList[k].Op # " = Excluded."
       THEN fail(ErrSyntax)
       ELSE IF conflict /\ Range(StmtConflictTarget(text)) # Range(model.primary)
       THEN fail(ErrNoConstraint)
       ELSE IF \E k \in 1..Len(model.primary) : new[model.primary[k]] = Null
       THEN fail(ErrNotNullViolation)
       ELSE IF hit = {}
       THEN DbResult(Nil, tbl.rows \cup {new}, seq2, new)
       ELSE IF ~conflict
       THEN fail(ErrUniqueViolation)
       ELSE LET old == CHOOSE r \in hit : TRUE
                set == setList
                upd == [c \in ModelColumns(model) |->
                          IF \E k \in 1..Len(set) : set[k].Column = c
                          THEN new[set[CHOOSE k \in 1..Len(set) :
                                          set[k].Column = c].Source]
                          ELSE old[c]]
            IN DbResult(Nil, (tbl.rows \ {old}) \cup {upd}, seq2, upd)

-----------------------------------------------------------------------------
(* InsertExecutor *)

\* db.QueryRow(query, args...).Scan(&result.ID): the error of the statement,
\* sql.ErrNoRows when it returned no row, else the returned column in ID
QueryRowScan(dbres, returning) ==
    IF dbres.err # Nil THEN [scanErr |-> dbres.err, ID |-> 0]
    ELSE IF returning = "" THEN [scanErr |-> ErrNoRows, ID |-> 0]
    ELSE [scanErr |-> Nil, ID |-> dbres.row[returning]]

\* if scanErr == sql.ErrNoRows { result.Err = scanErr } else { err = scanErr }
ResultErr(scanErr) == IF scanErr = ErrNoRows THEN scanErr ELSE Nil
ExecutorErrDropped(scanErr) == Nil
ExecutorErr(scanErr) == IF scanErr = ErrNoRows THEN Nil ELSE scanErr

\* RawResult.LastInsertId and RawResult.RowsAffected
LastInsertId(t) == [n |-> t.ID, err |-> t.Err]
RowsAffectedSilent(t) == [n |-> 0, err |-> Nil]
RowsAffected(t) == [n |-> 0, err |-> "ErrNotSupportRowsAffected"]

\* InsertExecutor on the outcome dbres of the statement: the result, the error,
\* what the connection raised and what the debug printer was called with
InsertExecutor(dbres, exec) ==
    LET scan == QueryRowScan(dbres, StmtReturning(exec.text))
        result == [ID |-> scan.ID, Err |-> ResultErr(scan.scanErr)]
        err == ExecutorErr(scan.scanErr)
    IN [status |-> Returned, exec |-> exec, result |-> result, err |-> err,
        scanErr |-> scan.scanErr, applied |-> dbres.err = Nil,
        printed |-> [query |-> exec.text, args |-> exec.args, err |-> err],
        before |-> {}, row |-> dbres.row]

-----------------------------------------------------------------------------
(* inserts and replaces on one table *)

InitInsert ==
    /\ SearchIdle
    /\ call \in [op : {"none"}, model : InsertModels]
    /\ out = NoOut
    /\ table = NoTable
    /\ heap = <<>>

\* the outcomes of a statement: run by the table, or lost with the connection
Outcomes(model, exec) ==
    {Execute(model, exec, table), DbResult(ErrConnDone, table.rows, table.seq, <<>>)}

KeysLeft(model, exec) == UsesSequence(model, exec) => table.seq <= MaxKey

\* brick.Insert: InsertExec, then InsertExecutor on the connection
CallInsert ==
    /\ call.op \in {"none", "Insert", "Replace"}
    /\ "model" \in DOMAIN call
    /\ \E columnValues \in ColumnValueLists :
          LET exec == InsertExec(call.model, columnValues)
          IN /\ KeysLeft(call.model, exec)
             /\ \E dbres \in Outcomes(call.model, exec) :
                   /\ call' = [op |-> "Insert", model |-> call.model,
                               columnValues |-> columnValues]
                   /\ out' = [InsertExecutor(dbres, exec) EXCEPT !.before = table.rows]
                   /\ table' = [rows |-> dbres.rows, seq |-> dbres.seq]
    /\ UNCHANGED svars
    /\ UNCHANGED heap

\* brick.Save: ReplaceExec, run on the connection
CallReplace ==
    /\ call.op \in {"none", "Insert", "Replace"}
    /\ "model" \in DOMAIN call
    /\ \E columnValues \in ColumnValueLists :
          LET exec == ReplaceExec(call.model, columnValues)
          IN /\ KeysLeft(call.model, exec)
             /\ \E dbres \in Outcomes(call.model, exec) :
                   /\ call' = [op |-> "Replace", model |-> call.model,
                               columnValues |-> columnValues]
                   /\ out' = [status |-> Returned, exec |-> exec, err |-> dbres.err,
                              applied |-> dbres.err = Nil, before |-> table.rows,
                              row |-> dbres.row,
                              proposed |-> ProposedRow(call.model, exec, table.seq)]
                   /\ table' = [rows |-> dbres.rows, seq |-> dbres.seq]
    /\ UNCHANGED svars
    /\ UNCHANGED heap

NextInsert == CallInsert \/ CallReplace

SpecInsert == InitInsert /\ [][NextInsert]_vars

-----------------------------------------------------------------------------
(* properties of the insert path *)

InsertDone == call.op = "Insert" /\ out # NoOut
ReplaceDone == call.op = "Replace" /\ out # NoOut

\* the primary key is one auto-increment column
SingleSerialKey(model) ==
    Len(model.primary) = 1 /\ FieldOfColumn(model, model.primary[1]).AutoIncrement

\* the insert statement ends with RETURNING <primary key column>, and the
\* result hands the key of the row written to LastInsertId without error
YieldsPrimaryKey ==
    LET pk == call.model.primary[1]
    IN /\ out.exec.text = insertExec(call.model, call.columnValues).text
                          \o <<" RETURNING ", pk>>
       /\ out.err = Nil
       /\ LastInsertId(out.result) = [n |-> out.row[pk], err |-> Nil]

(* C15, as claimed: for every model, the insert statement carries RETURNING *)
(* for the primary key and LastInsertId returns the new key without error.  *)
C15_EveryModelYieldsKey == (InsertDone /\ out.applied) => YieldsPrimaryKey

(* C15, amended: for every model whose primary key is a single              *)
(* auto-increment column, the insert statement carries RETURNING for that   *)
(* column and, the insert done, LastInsertId returns the key of the new row *)
(* without error.                                                           *)
C15_SerialKeyYieldsKey ==
    (InsertDone /\ out.applied /\ SingleSerialKey(call.model)) => YieldsPrimaryKey

C15_Witness ==
    /\ InsertDone
    /\ out.applied
    /\ SingleSerialKey(call.model)
    /\ ColumnsOf(call.columnValues) = <<"name">>
    /\ out.result.ID = 2
    /\ Cardinality(table.rows) = 2

(* C16: the statement of ReplaceExec begins with the text of the insert     *)
(* builder for the same inputs and has the same arguments, one per column   *)
(* value in order; the ON CONFLICT(primary columns in declared order) DO    *)
(* UPDATE SET clause has one "col = Excluded.col" entry per column value in *)
(* the same order and adds no argument.                                     *)
C16_ReplaceExtendsInsert ==
    ReplaceDone =>
        LET cv == call.columnValues
            ins == insertExec(call.model, cv)
            text == out.exec.text
        IN /\ ins.text = <<"INSERT INTO \"", call.model.Name, "\"(">>
                         \o Join(ColumnsOf(cv)) \o <<") VALUES(">>
                         \o Commas(Len(cv)) \o <<")">>
           /\ SubSeq(text, 1, Len(ins.text)) = ins.text
           /\ out.exec.args = ins.args
           /\ out.exec.args = [k \in 1..Len(cv) |-> cv[k].Value]
           /\ SubSeq(text, Len(ins.text) + 1, Len(text))
              = <<" ON CONFLICT(">> \o Join(call.model.primary)
                \o <<") DO UPDATE SET ">>
                \o JoinTexts([k \in 1..Len(cv) |->
                                <<cv[k].Column, " = Excluded.", cv[k].Column>>])

C16_Witness ==
    /\ ReplaceDone
    /\ call.model.primary = <<"id", "name">>
    /\ ColumnsOf(call.columnValues) = <<"name", "id">>
    /\ out.exec.args = <<2, 1>>

(* C17: run on a table keyed by the primary key, after any sequence of      *)
(* replaces, the statement of ReplaceExec updates the row that has the      *)
(* primary key of its row (row count unchanged, the listed columns take the *)
(* new values) and adds exactly one row with the given values when there is *)
(* none.                                                                    *)
C17_ReplaceIsUpsert ==
    (/\ ReplaceDone
     /\ out.err # ErrConnDone
     /\ \A k \in 1..Len(call.model.primary) : out.proposed[call.model.primary[k]] # Null)
    => LET cv == call.columnValues
           hit == {r \in out.before : SameKey(call.model, r, out.proposed)}
           given(r) == \A k \in 1..Len(cv) : r[cv[k].Column] = cv[k].Value
       IN /\ out.err = Nil
          /\ hit # {} =>
                /\ Cardinality(table.rows) = Cardinality(out.before)
                /\ out.before \ hit \subseteq table.rows
                /\ \E r \in table.rows :
                      /\ SameKey(call.model, r, out.proposed)
                      /\ given(r)
                      /\ \A old \in hit, c \in ModelColumns(call.model) :
                            c \notin Range(ColumnsOf(cv)) => r[c] = old[c]
          /\ hit = {} =>
                /\ Cardinality(table.rows) = Cardinality(out.before) + 1
                /\ out.before \subseteq table.rows
                /\ \E r \in table.rows \ out.before : given(r)

C17_Witness ==
    /\ ReplaceDone
    /\ out.err = Nil
    /\ call.model.primary = <<"id">>
    /\ ColumnsOf(call.columnValues) = <<"id", "name">>
    /\ \E r \in out.before :
          /\ SameKey(call.model, r, out.proposed)
          /\ r["name"] # out.proposed["name"]
    /\ Cardinality(table.rows) = 2
    /\ Cardinality(out.before) = 2

(* C18: the result of InsertExecutor never reports a row count:             *)
(* RowsAffected returns the error ErrNotSupportRowsAffected for every       *)
(* outcome of the insert.                                                   *)
C18_RowsAffectedUnsupported ==
    InsertDone =>
        /\ RowsAffected(out.result).err = "ErrNotSupportRowsAffected"
        /\ RowsAffected(out.result).err # Nil
        /\ RowsAffected(out.result).n = 0

C18_Witness ==
    /\ InsertDone
    /\ out.scanErr = ErrUniqueViolation
    /\ RowsAffected(out.result).err = "ErrNotSupportRowsAffected"

(* C19, as claimed: every error the connection raises while InsertExecutor  *)
(* runs the statement, no row returned included, is InsertExecutor's error  *)
(* and the error handed to the debug printer.                               *)
C19_EveryErrorReturned ==
    (InsertDone /\ out.scanErr # Nil) =>
        /\ out.status = Returned
        /\ out.err = out.scanErr
        /\ out.printed.err = out.scanErr

(* C19, amended: every error the connection raises other than              *)
(* sql.ErrNoRows is returned unmodified as InsertExecutor's error and is    *)
(* the error handed to the debug printer; sql.ErrNoRows is kept in the      *)
(* result, where LastInsertId returns it, and the error returned and        *)
(* printed is nil; InsertExecutor does not panic.                           *)
C19_ErrorsButNoRowsReturned ==
    InsertDone =>
        /\ out.status = Returned
        /\ out.scanErr \notin {Nil, ErrNoRows} =>
              (out.err = out.scanErr /\ out.printed.err = out.scanErr)
        /\ out.scanErr = ErrNoRows =>
              /\ out.err = Nil
              /\ out.printed.err = Nil
              /\ LastInsertId(out.result).err = ErrNoRows

C19_Witness ==
    /\ InsertDone
    /\ out.scanErr = ErrConnDone
    /\ out.err = ErrConnDone
    /\ table.rows # {}

-----------------------------------------------------------------------------
(* SearchExec and ConditionExec over Go's slices: an argument list is a     *)
(* reference to a backing array with a length and a capacity, so that two   *)
(* lists can share an array and an append can write into one.               *)

MaxHeapLen == 4

\* the capacity a newly grown array has beyond the length asked for is the
\* runtime's choice
Spare == {0, 1}

\* a nil slice
NilSlice == [arr |-> 0, len |-> 0, cap |-> 0]

\* the elements a slice shows: array[0:len]
Contents(h, sl) == IF sl.len = 0 THEN <<>> ELSE SubSeq(h[sl.arr], 1, sl.len)

\* append(sl, vals...): written into the array of sl when its capacity
\* allows, else copied to a new array; the slots past the length hold the
\* zero value
SliceAppend(h, sl, vals, spare) ==
    LET n == sl.len + Len(vals)
    IN IF Len(vals) = 0 THEN [heap |-> h, slice |-> sl]
       ELSE IF n <= sl.cap
       THEN [heap |-> [h EXCEPT ![sl.arr] =
                          [k \in 1..sl.cap |->
                              IF k > sl.len /\ k <= n THEN vals[k - sl.len] ELSE @[k]]],
             slice |-> [sl EXCEPT !.len = n]]
       ELSE [heap |-> Append(h, [k \in 1..(n + spare) |->
                                    IF k <= sl.len THEN h[sl.arr][k]
                                    ELSE IF k <= n THEN vals[k - sl.len]
                                    ELSE 0]),
             slice |-> [arr |-> Len(h) + 1, len |-> n, cap |-> n + spare]]

\* the slice a call builds for arguments written out one by one, as in
\* exec.Append(text, s[i].Val.Value().Interface())
Variadic(h, vals) == SliceAppend(h, NilSlice, vals, 0)

\* var args []interface{}; for ... { args = append(args, vv.Index(i).Interface()) }
RECURSIVE LoopArgs(_, _, _)
LoopArgs(h, vals, spare) ==
    IF Len(vals) = 0 THEN [heap |-> h, slice |-> NilSlice]
    ELSE LET before == LoopArgs(h, SubSeq(vals, 1, Len(vals) - 1), spare)
         IN SliceAppend(before.heap, before.slice, <<vals[Len(vals)]>>, spare)

\* append(append([]interface{}{}, last2.Args()...), last1.Args()...)
CombinedArgsShared(h, last2, last1, spare) ==
    SliceAppend(h, last2.args, Contents(h, last1.args), spare)
CombinedArgs(h, last2, last1, spare) ==
    LET copy == SliceAppend(h, NilSlice, Contents(h, last2.args), spare)
    IN SliceAppend(copy.heap, copy.slice, Contents(copy.heap, last1.args), spare)

\* QToSExec{}
EmptySliceExec == [text |-> <<>>, args |-> NilSlice]

\* exec.Append(query, args...) when args is a slice: the arguments are
\* appended to the fragment's own list
SliceExecAppend(h, exec, query, args, spare) ==
    LET r == SliceAppend(h, exec.args, Contents(h, args), spare)
    IN [heap |-> r.heap, exec |-> [text |-> exec.text \o query, args |-> r.slice]]

\* Source() of a fragment, as the renderings above take it
TextOf(f) == [text |-> f.text, args |-> <<>>]

\* a fragment with the arguments it showed when it was taken off the stack
Snapshot(h, f) == [frag |-> f, args |-> Contents(h, f.args)]

HeapLists ==
    SeqsUpTo({LeafA, LeafC, Node("ExprAnd", "", <<>>), Node("ExprOr", "", <<>>),
              Node("ExprNot", "", <<>>), Node("ExprIgnore", "", <<>>)}, MaxHeapLen)

InitHeap ==
    /\ s \in HeapLists
    /\ i = 0
    /\ stack = <<>>
    /\ status = Running
    /\ ret = EmptySliceExec
    /\ call = [op |-> "SearchExec"]
    /\ out = [status |-> "none", popped |-> {}]
    /\ table = NoTable
    /\ heap = <<>>

\* case ExprAnd, case ExprOr
HeapBinary ==
    /\ AtNode({"ExprAnd", "ExprOr"})
    /\ IF BinaryUnderflow(stack)
       THEN /\ status' = ErrInvalidSearchTree
            /\ UNCHANGED <<i, stack, heap, out>>
       ELSE \E spare \in Spare, grown \in Spare :
               LET last1 == stack[Len(stack)]
                   last2 == stack[Len(stack) - 1]
                   query == IF s[i + 1].Type = "ExprAnd"
                            THEN AndExec(TextOf(last2), TextOf(last1)).text
                            ELSE OrExec(TextOf(last2), TextOf(last1)).text
                   args == CombinedArgs(heap, last2, last1, spare)
                   r == SliceExecAppend(args.heap, EmptySliceExec, query, args.slice, grown)
               IN /\ stack' = Append(Pop(stack, 2), r.exec)
                  /\ heap' = r.heap
                  /\ out' = [out EXCEPT !.popped =
                                @ \cup {Snapshot(heap, last1), Snapshot(heap, last2)}]
                  /\ i' = i + 1
                  /\ UNCHANGED status
    /\ UNCHANGED <<s, ret, call, table>>

\* case ExprNot
HeapNot ==
    /\ AtNode({"ExprNot"})
    /\ IF NotUnderflow(stack)
       THEN /\ status' = ErrInvalidSearchTree
            /\ UNCHANGED <<i, stack, heap, out>>
       ELSE \E grown \in Spare :
               LET last == stack[Len(stack)]
                   r == SliceExecAppend(heap, EmptySliceExec,
                                        NotExec(TextOf(last)).text, last.args, grown)
               IN /\ stack' = Append(Pop(stack, 1), r.exec)
                  /\ heap' = r.heap
                  /\ out' = [out EXCEPT !.popped = @ \cup {Snapshot(heap, last)}]
                  /\ i' = i + 1
                  /\ UNCHANGED status
    /\ UNCHANGED <<s, ret, call, table>>

\* case ExprIgnore: continue
HeapIgnore ==
    /\ AtNode({"ExprIgnore"})
    /\ i' = i + 1
    /\ UNCHANGED <<s, stack, status, ret, call, out, table, heap>>

\* a leaf case, then stack = append(stack, exec)
HeapLeaf ==
    /\ AtNode(LeafTypes)
    /\ \E spare \in Spare, grown \in Spare :
          LET leaf == LeafExec(s[i + 1])
              args == IF s[i + 1].Type \in InTypes
                      THEN LoopArgs(heap, leaf.args, spare)
                      ELSE Variadic(heap, leaf.args)
              r == SliceExecAppend(args.heap, EmptySliceExec, leaf.text, args.slice, grown)
          IN /\ stack' = Append(stack, r.exec)
             /\ heap' = r.heap
    /\ i' = i + 1
    /\ UNCHANGED <<s, status, ret, call, out, table>>

\* return stack[0]
HeapReturn ==
    /\ status = Running
    /\ i = Len(s)
    /\ IF Len(stack) < 1
       THEN status' = IndexOutOfRange /\ UNCHANGED ret
       ELSE status' = Returned /\ ret' = stack[1]
    /\ UNCHANGED <<s, i, stack, call, out, table, heap>>

\* ConditionExec once its SearchExec has returned: the WHERE clause takes
\* the arguments of the search fragment, the later clauses take none
HeapCondition ==
    /\ status = Returned
    /\ \E grown \in Spare, limit \in {0, 2} :
          LET r == SliceExecAppend(heap, EmptySliceExec, <<" WHERE ">> \o ret.text,
                                   ret.args, grown)
          IN /\ ret' = [r.exec EXCEPT !.text =
                           TailClauses(TextOf(r.exec), limit, 0, <<"a">>, <<>>).text]
             /\ heap' = r.heap
             /\ out' = [out EXCEPT !.popped = @ \cup {Snapshot(heap, ret)}]
             /\ call' = [op |-> "ConditionExec"]
    /\ status' = "conditioned"
    /\ UNCHANGED <<s, i, stack, table>>

NextHeap == HeapBinary \/ HeapNot \/ HeapIgnore \/ HeapLeaf \/ HeapReturn \/ HeapCondition

SpecHeap == InitHeap /\ [][NextHeap]_vars

\* the fragments built so far: on the stack, taken off it, or returned
Built == Range(stack) \cup {p.frag : p \in out.popped} \cup {ret}

\* the backing arrays of the fragments built so far
BuiltArrays == {f.args.arr : f \in Built} \ {0}

(* C20: SearchExec and ConditionExec leave their inputs and the fragments   *)
(* they have built alone: every step keeps the SearchList as it was, every  *)
(* fragment taken off the stack as an And/Or/Not operand, and the search    *)
(* fragment ConditionExec wraps, still shows the text and the arguments it  *)
(* had when it was taken, and no step writes into the backing array of a    *)
(* fragment built earlier, its spare capacity included: the argument list   *)
(* of a newly pushed fragment lives in an array of its own.                 *)
C20_InputsAndOperandsUnchanged ==
    [][(call.op \in {"SearchExec", "ConditionExec"}) =>
          /\ s' = s
          /\ \A p \in out'.popped : Contents(heap', p.frag.args) = p.args
          /\ \A a \in BuiltArrays : heap'[a] = heap[a]
          /\ stack' # stack => stack'[Len(stack')].args.arr \notin BuiltArrays]_vars

C20_Witness ==
    /\ call.op = "ConditionExec"
    /\ status = "conditioned"
    /\ s = <<LeafC, LeafA, Node("ExprAnd", "", <<>>), Node("ExprNot", "", <<>>)>>
    /\ Contents(heap, ret.args) = <<2, 1, 1>>
    /\ Cardinality(out.popped) = 4
    /\ \E p \in out.popped :
          /\ p.args = <<2, 1>>
          /\ p.frag.args.cap = 3
          /\ heap[p.frag.args.arr] = <<2, 1, 0>>

-----------------------------------------------------------------------------
(* SearchExec on lists whose leaves each carry a column of their own, so    *)
(* that a "?" of the result can be traced to the leaf that rendered it.     *)

\* the column name given to the leaf at position k
ColumnAt(k) == "col" \o ToString(k)

Relabel(list) ==
    [k \in 1..Len(list) |->
        IF list[k].Type \in LeafTypes THEN [list[k] EXCEPT !.Column = ColumnAt(k)]
        ELSE list[k]]

TaggedLists == {Relabel(list) : list \in SeqsUpTo(CoreNodes, MaxLen)}

InitTagged ==
    /\ s \in TaggedLists
    /\ i = 0
    /\ stack = <<>>
    /\ status = Running
    /\ ret = EmptyExec
    /\ call = NoCall
    /\ out = NoOut
    /\ table = NoTable
    /\ heap = <<>>

SpecTagged == InitTagged /\ [][Next]_vars

\* the leaves' own arguments, in the order of the list
RECURSIVE LeafArgs(_)
LeafArgs(list) ==
    IF list = <<>> THEN <<>>
    ELSE LeafArgs(SubSeq(list, 1, Len(list) - 1)) \o list[Len(list)].Value

\* for each argument of LeafArgs, the column of the leaf that supplied it
RECURSIVE ArgOwners(_)
ArgOwners(list) ==
    IF list = <<>> THEN <<>>
    ELSE LET n == list[Len(list)]
         IN ArgOwners(SubSeq(list, 1, Len(list) - 1))
            \o [j \in 1..Len(n.Value) |-> n.Column]

\* the column token nearest to the end of a text
LastColumn(text, columns) ==
    LET at == {k \in 1..Len(text) : text[k] \in columns}
    IN IF at = {} THEN ""
       ELSE text[CHOOSE k \in at : \A j \in at : j <= k]

\* for each "?" of a text, left to right, the column of the leaf it was
\* rendered for: the nearest column token before it
RECURSIVE QuestionOwners(_, _)
QuestionOwners(text, columns) ==
    IF text = <<>> THEN <<>>
    ELSE LET front == SubSeq(text, 1, Len(text) - 1)
         IN IF text[Len(text)] = "?"
            THEN Append(QuestionOwners(front, columns), LastColumn(front, columns))
            ELSE QuestionOwners(front, columns)

LeafColumns(list) == {list[k].Column : k \in {j \in 1..Len(list) : list[j].Type \in LeafTypes}}

(* C22: when SearchExec returns with exactly one fragment on the stack, the *)
(* arguments of the result are the leaves' own arguments concatenated in    *)
(* the order the leaves appear in the SearchList, And/Or/Not/Ignore nodes   *)
(* adding none, and the i-th "?" of the result text, left to right, was     *)
(* rendered for the leaf that supplied the i-th argument.                   *)
C22_ArgumentsInLeafOrder ==
    (status = Returned /\ Len(stack) = 1) =>
        /\ ret.args = LeafArgs(s)
        /\ QuestionOwners(ret.text, LeafColumns(s)) = ArgOwners(s)

C22_Witness ==
    /\ status = Returned
    /\ Len(stack) = 1
    /\ s = Relabel(<<LeafA, LeafB, LeafC, Node("ExprOr", "", <<>>),
                     Node("ExprAnd", "", <<>>)>>)
    /\ ret.args = <<1, 3, 2, 2, 1>>
    /\ QuestionOwners(ret.text, LeafColumns(s))
         = <<"col1", "col2", "col2", "col3", "col3">>

-----------------------------------------------------------------------------
(* The preload resolver, many-to-many: the join model is queried for the    *)
(* rows of the parents, the child model for the set of child keys, and the  *)
(* children are linked to the parents by the pair list.                     *)

\* number of rows of the join model
MaxPairs == 3

ParentKeys == {1, 2, 3}
ChildKeys == {100, 101}

Pending == "Pending"
Querying == "Querying"
Linking == "Linking"
Done == "Done"
Failed == "Failed"

\* a row of the join model
Pair(parentKey, childKey) == [parentKey |-> parentKey, childKey |-> childKey]

JoinRows == SeqsUpTo({Pair(p, c) : p \in ParentKeys, c \in ChildKeys}, MaxPairs)

\* the parent rows of a request, by key, in the order they were loaded
ParentLists == {<<1>>, <<1, 2>>, <<2, 1>>}

\* a row of the child model
ChildRow(key) == [ID |-> key, Name |-> "child" \o ToString(key)]

\* the join rows whose left key is one of the keys, in the order of the rows
RECURSIVE Filter(_, _)
Filter(rows, keys) ==
    IF rows = <<>> THEN <<>>
    ELSE LET front == Filter(SubSeq(rows, 1, Len(rows) - 1), keys)
             row == rows[Len(rows)]
         IN IF row.parentKey \in keys THEN Append(front, row) ELSE front

\* the join rows whose left key is the key of a parent, as the query
\* returns them
QueryPairs(join, parents) == Filter(join, Range(parents))

\* the set of child keys the child model is queried by
ChildKeySet(pairs) == {pairs[k].childKey : k \in 1..Len(pairs)}

\* the rows the child query returns when it visits the keys in this order:
\* one row for each key the child model has
RECURSIVE QueryChildren(_, _)
QueryChildren(childTable, order) ==
    IF order = <<>> THEN <<>>
    ELSE LET front == QueryChildren(childTable, SubSeq(order, 1, Len(order) - 1))
             key == order[Len(order)]
         IN IF key \in childTable THEN Append(front, ChildRow(key)) ELSE front

\* the fetched rows with the key
RowsWithKey(children, key) == {k \in 1..Len(children) : children[k].ID = key}

\* one pair linked: the fetched child of the pair is appended to the
\* container of its parent
AttachOnce(containers, pair, children) ==
    LET found == RowsWithKey(children, pair.childKey)
    IN IF found = {} THEN containers
       ELSE LET child == children[CHOOSE k \in found : TRUE]
            IN IF child \in Range(containers[pair.parentKey]) THEN containers
               ELSE [containers EXCEPT ![pair.parentKey] = Append(@, child)]
Attach(containers, pair, children) ==
    LET found == RowsWithKey(children, pair.childKey)
    IN IF found = {} THEN containers
       ELSE [containers EXCEPT ![pair.parentKey] =
                Append(@, children[CHOOSE k \in found : TRUE])]

\* parent -> [children], reconstructed from the pair list
RECURSIVE Link(_, _, _)
Link(parents, pairs, children) ==
    IF pairs = <<>> THEN [p \in Range(parents) |-> <<>>]
    ELSE Attach(Link(parents, SubSeq(pairs, 1, Len(pairs) - 1), children),
                pairs[Len(pairs)], children)

PreloadCalls ==
    [op : {"Preload"}, parents : ParentLists, join : JoinRows,
     childTable : SUBSET ChildKeys]

NoPreload == [phase |-> Pending, pairs |-> <<>>, children |-> <<>>,
              containers |-> <<>>]

InitPreload ==
    /\ SearchIdle
    /\ call \in PreloadCalls
    /\ out = NoPreload
    /\ table = NoTable
    /\ heap = <<>>

\* Pending -> Querying: the join model is queried by the parents' keys
QueryJoin ==
    /\ call.op = "Preload"
    /\ out.phase = Pending
    /\ out' = [out EXCEPT !.phase = Querying,
                          !.pairs = QueryPairs(call.join, call.parents)]
    /\ UNCHANGED <<call, table, heap>>
    /\ UNCHANGED svars

\* Querying -> Linking: the child model is queried once by the set of keys
ScanChildren ==
    /\ call.op = "Preload"
    /\ out.phase = Querying
    /\ \E order \in Orders(ChildKeySet(out.pairs)) :
          out' = [out EXCEPT !.phase = Linking,
                             !.children = QueryChildren(call.childTable, order)]
    /\ UNCHANGED <<call, table, heap>>
    /\ UNCHANGED svars

\* Linking -> Done
LinkChildren ==
    /\ call.op = "Preload"
    /\ out.phase = Linking
    /\ out' = [out EXCEPT !.phase = Done,
                          !.containers = Link(call.parents, out.pairs, out.children)]
    /\ UNCHANGED <<call, table, heap>>
    /\ UNCHANGED svars

\* a query fails: the level is recorded as failed
FailPreload ==
    /\ call.op = "Preload"
    /\ out.phase \in {Pending, Querying}
    /\ out' = [out EXCEPT !.phase = Failed]
    /\ UNCHANGED <<call, table, heap>>
    /\ UNCHANGED svars

NextPreload == QueryJoin \/ ScanChildren \/ LinkChildren \/ FailPreload

SpecPreload == InitPreload /\ [][NextPreload]_vars

PreloadDone == call.op = "Preload" /\ out.phase = Done

\* every child key of the pairs was fetched
AllFetched == \A key \in ChildKeySet(out.pairs) : RowsWithKey(out.children, key) # {}

\* the children paired with the parent, in the order of the join rows
RECURSIVE PairedWith(_, _)
PairedWith(join, parentKey) ==
    IF join = <<>> THEN <<>>
    ELSE LET front == PairedWith(SubSeq(join, 1, Len(join) - 1), parentKey)
             row == join[Len(join)]
         IN IF row.parentKey = parentKey THEN Append(front, ChildRow(row.childKey))
            ELSE front

(* C21: many-to-many preload: with the child rows fetched once per distinct *)
(* child key, each parent's container holds exactly the children paired     *)
(* with it, in pair-list order, a pair listed twice attached twice; for the *)
(* pairs [(1,100),(1,101),(2,100)] parent 1 holds [100,101] and parent 2    *)
(* holds [100], child 100 fetched once and attached twice.                  *)
C21_ManyToManyLink ==
    /\ (call.op = "Preload" /\ out.phase \in {Linking, Done}) =>
          \A key \in ChildKeys : Cardinality(RowsWithKey(out.children, key)) <= 1
    /\ (PreloadDone /\ AllFetched) =>
          /\ DOMAIN out.containers = Range(call.parents)
          /\ \A p \in Range(call.parents) :
                out.containers[p] = PairedWith(call.join, p)
    /\ (PreloadDone /\ AllFetched
        /\ out.pairs = <<Pair(1, 100), Pair(1, 101), Pair(2, 100)>>) =>
          /\ out.containers[1] = <<ChildRow(100), ChildRow(101)>>
          /\ out.containers[2] = <<ChildRow(100)>>
          /\ Len(out.children) = 2

C21_Witness ==
    /\ PreloadDone
    /\ AllFetched
    /\ call.join = <<Pair(1, 100), Pair(1, 101), Pair(2, 100)>>
    /\ out.children = <<ChildRow(101), ChildRow(100)>>
    /\ out.containers[1] = <<ChildRow(100), ChildRow(101)>>
    /\ out.containers[2] = <<ChildRow(100)>>

====
